---- MODULE Spec2Model ----
(***************************************************************************)
(* A model of flight_utils.py: the 1 Hz and 25 Hz flight-file readers, the *)
(* time reconstruction, the rate dispatch, the flight_obj constructor and  *)
(* the campaign scanner.                                                   *)
(*                                                                         *)
(* Numbers.  Every value of a table is a multiple of 1/hz in the model     *)
(* (file values are whole numbers, sub-second increments are k/hz), so a   *)
(* number x is held as the integer x*hz, called its ticks.                 *)
(* A sample of a column is one of                                          *)
(*    <<"num", ticks>>        a real number                                *)
(*    <<"nan">>               numpy's NaN                                  *)
(*    <<"dt", day, ticks>>    a datetime: proleptic ordinal day + ticks    *)
(*                            after that day's UTC midnight                *)
(*    <<"nat">>               pandas' NaT                                  *)
(* A string the code takes apart (a units string, a file name) is a        *)
(* sequence of one-character strings.                                      *)
(***************************************************************************)
EXTENDS Integers, Sequences, FiniteSets, TLC

VARIABLES
    \* ---- one call of read_flight_nc / flight_obj on one file ----
    nc,             \* the file: [dims, nsec, vars]
    is_file,        \* whether file_path names a regular file
    read_vars,      \* the requested variable list
    entry,          \* "read_flight_nc" or "flight_obj"
    pc,             \* position of the call
    reader,         \* the reader the dispatch called, or "none"
    idx,            \* index of the next variable of the reader's for loop
    data,           \* the reader's list of single-column frames
    df,             \* the table the reader returned
    exc,            \* the exception that left the call, or "none"
    obj,            \* the flight_obj's attributes set so far
    \* ---- one call of read_all_flights ----
    fs,             \* the file system below data_dir
    field_campaigns,\* the campaign list
    spc,            \* position of the scan
    cidx,           \* index of the current campaign
    flight_fnames,  \* the current campaign's sorted file names
    fidx,           \* index of the next file name
    flight_dict,    \* the current campaign's mapping
    all_campaign_nc,\* the result under construction
    flight_nc,      \* the local variable flight_nc: a handle or 0
    ret,            \* a handle open_flight_nc returned, not yet stored, or 0
    handles,        \* handle -> [file, open] of every Dataset created
    sexc            \* the exception that left the scan, or "none"

readerVars == <<nc, is_file, read_vars, entry, pc, reader, idx, data, df, exc, obj>>
scanVars == <<fs, field_campaigns, spc, cidx, flight_fnames, fidx, flight_dict,
              all_campaign_nc, flight_nc, ret, handles, sexc>>
vars == <<readerVars, scanVars>>

----------------------------------------------------------------------------
\* Bounds of the model.

\* The largest number of seconds (length of the Time dimension) of a file.
MaxSeconds == 2

\* The longest requested variable list.
MaxVars == 2

----------------------------------------------------------------------------
\* Samples and frames.

hz == 25

Num(t) == <<"num", t>>
NaN == <<"nan">>
Dt(d, t) == <<"dt", d, t>>
NaT == <<"nat">>

\* sub_seconds = np.arange(0,25,1)/25. : element i (1-based) is (i-1)/hz, in ticks i-1.
sub_seconds == [i \in 1..hz |-> i - 1]

\* pd.DataFrame({name: rows}): a frame of one column.
DataFrame(name, rows) == [name |-> name, rows |-> rows]

\* np.ravel of a 2-D array held as a sequence of equally long rows: row-major.
ravel(a) ==
    IF a = <<>> THEN <<>>
    ELSE LET W == Len(a[1])
         IN  [j \in 1..(Len(a) * W) |-> a[((j - 1) \div W) + 1][((j - 1) % W) + 1]]

----------------------------------------------------------------------------
\* Time reconstruction (sfm_to_datetime).

\* str.split(' '): a new token starts after every single space.
RECURSIVE SplitFrom(_, _, _)
SplitFrom(s, i, cur) ==
    IF i > Len(s) THEN <<cur>>
    ELSE IF s[i] = " " THEN <<cur>> \o SplitFrom(s, i + 1, <<>>)
    ELSE SplitFrom(s, i + 1, Append(cur, s[i]))

split(s) == SplitFrom(s, 1, <<>>)

\* The slice tok[0:10].
Slice10(tok) == SubSeq(tok, 1, IF Len(tok) < 10 THEN Len(tok) ELSE 10)

Digit(c) ==
    CASE c = "0" -> 0 [] c = "1" -> 1 [] c = "2" -> 2 [] c = "3" -> 3 [] c = "4" -> 4
      [] c = "5" -> 5 [] c = "6" -> 6 [] c = "7" -> 7 [] c = "8" -> 8 [] c = "9" -> 9
      [] OTHER -> -1

IsLeap(y) == (y % 4 = 0) /\ ((y % 100 # 0) \/ (y % 400 = 0))

DaysInMonth(y, m) ==
    IF m = 2 THEN (IF IsLeap(y) THEN 29 ELSE 28)
    ELSE IF m \in {4, 6, 9, 11} THEN 30 ELSE 31

RECURSIVE DaysBeforeMonth(_, _)
DaysBeforeMonth(y, m) ==
    IF m <= 1 THEN 0 ELSE DaysBeforeMonth(y, m - 1) + DaysInMonth(y, m - 1)

\* date.toordinal(): 0001-01-01 is day 1.
Ordinal(y, m, d) ==
    LET p == y - 1
    IN  p * 365 + (p \div 4) - (p \div 100) + (p \div 400) + DaysBeforeMonth(y, m) + d

\* The fixed text the code appends to the date: "T00:00:00+0000".
MidnightSuffix == <<"T","0","0",":","0","0",":","0","0","+","0","0","0","0">>

\* datetime.fromisoformat on the string the code builds, for the extended
\* calendar form YYYY-MM-DD followed by a time and an offset (Python 3.11 and
\* later read the offset +0000).  The result is the instant's ordinal day and
\* its ticks after UTC midnight, or a ValueError.
fromisoformat(s) ==
    LET n == Len(MidnightSuffix)
        shaped == /\ Len(s) = 10 + n
                  /\ SubSeq(s, 11, 10 + n) = MidnightSuffix
                  /\ s[5] = "-" /\ s[8] = "-"
                  /\ \A i \in {1, 2, 3, 4, 6, 7, 9, 10} : Digit(s[i]) >= 0
        y == 1000 * Digit(s[1]) + 100 * Digit(s[2]) + 10 * Digit(s[3]) + Digit(s[4])
        m == 10 * Digit(s[6]) + Digit(s[7])
        d == 10 * Digit(s[9]) + Digit(s[10])
    IN  IF shaped /\ y >= 1 /\ m \in 1..12 /\ d >= 1 /\ d <= DaysInMonth(y, m)
        THEN [ok |-> TRUE, day |-> Ordinal(y, m, d), ticks |-> 0, exc |-> "none"]
        ELSE [ok |-> FALSE, day |-> 0, ticks |-> 0, exc |-> "ValueError"]

TicksPerDay == 24 * 60 * 60 * hz

\* t0_dt + timedelta(seconds=...): the offset carries into the day.
AddDelta(t0, ticks) ==
    Dt(t0.day + ((t0.ticks + ticks) \div TicksPerDay), (t0.ticks + ticks) % TicksPerDay)

\* sfm_to_datetime(sfm, tunits): [ok, dts, exc].  The deltas are built first
\* (timedelta refuses a NaN), then the units string is split, its third token
\* is cut to ten characters and parsed.
sfm_to_datetime(sfm, tunits) ==
    LET tunits_split == split(tunits)
        fail(e) == [ok |-> FALSE, dts |-> <<>>, exc |-> e]
    IN  IF \E j \in 1..Len(sfm) : sfm[j][1] # "num" THEN fail("ValueError")
        ELSE IF Len(tunits_split) < 3 THEN fail("IndexError")
        ELSE LET t0_dt == fromisoformat(Slice10(tunits_split[3]) \o MidnightSuffix)
             IN  IF ~t0_dt.ok THEN fail(t0_dt.exc)
                 ELSE [ok |-> TRUE,
                       dts |-> [j \in 1..Len(sfm) |-> AddDelta(t0_dt, sfm[j][2])],
                       exc |-> "none"]

\* Units strings of the files of the model.
UnitsStd == <<"s","e","c","o","n","d","s"," ","s","i","n","c","e"," ","2","0","2","0","-","0","1","-","0","2"," ","0","0",":","0","0",":","0","0"," ","+","0","0","0","0">>
UnitsOffset == <<"s","e","c","o","n","d","s"," ","s","i","n","c","e"," ","2","0","1","9","-","1","2","-","3","1"," ","1","2",":","3","0",":","0","0"," ","-","0","6","0","0">>
UnitsLeapT == <<"s","e","c","o","n","d","s"," ","s","i","n","c","e"," ","2","0","2","0","-","0","2","-","2","9","T","0","6",":","0","0",":","0","0","Z">>
UnitsNoDate == <<"s","e","c","o","n","d","s"," ","s","i","n","c","e"," ","m","i","d","n","i","g","h","t">>
UnitsShort == <<"s","e","c","o","n","d","s">>
UnitsBadDay == <<"s","e","c","o","n","d","s"," ","s","i","n","c","e"," ","2","0","2","1","-","0","2","-","3","0"," ","0","0",":","0","0",":","0","0"," ","+","0","0","0","0">>

UnitsStrings == {UnitsStd, UnitsOffset, UnitsLeapT, UnitsNoDate, UnitsShort, UnitsBadDay}

----------------------------------------------------------------------------
\* The files of the model.  A variable of a file is
\*   [present, shape, data, rows, has_units, units]
\* of whole numbers: data holds the values of a rank-1 variable, rows the
\* rows of a rank-2 variable (one per second); the elements of a variable of
\* a higher rank are never read.

VarNames == {"Time", "GGALT", "UIC"}

Absent == [present |-> FALSE, shape |-> <<>>, data |-> <<>>, rows |-> <<>>,
           has_units |-> FALSE, units |-> <<>>]

Var1D(d) == [present |-> TRUE, shape |-> <<Len(d)>>, data |-> d, rows |-> <<>>,
             has_units |-> FALSE, units |-> <<>>]

Var2D(M, W, r) == [present |-> TRUE, shape |-> <<M, W>>, data |-> <<>>, rows |-> r,
                   has_units |-> FALSE, units |-> <<>>]

Var3D(M) == [present |-> TRUE, shape |-> <<M, 1, 1>>, data |-> <<>>, rows |-> <<>>,
             has_units |-> FALSE, units |-> <<>>]

TimeVar(d, u) == [present |-> TRUE, shape |-> <<Len(d)>>, data |-> d, rows |-> <<>>,
                  has_units |-> TRUE, units |-> u]

\* Per-second values: a ramp, a zigzag with negative values.
Ramp(M) == [i \in 1..M |-> 100 * i]
Zigzag(M) == [i \in 1..M |-> IF i % 2 = 1 THEN 7 ELSE -3]

\* A seconds x W array whose elements are pairwise different.
Grid(M, W) == [s \in 1..M |-> [k \in 1..W |-> 1000 * s + k]]

\* Seconds since midnight: one series that passes midnight, one with gaps.
TimeSeqs(N) == {[i \in 1..N |-> 86398 + i], [i \in 1..N |-> 3 * i * i]}

\* The second-axis widths of the rank-2 variables: sps25 and sps5.
SecondAxisWidths == {hz, 5}

TimeOptions(N) ==
    {Absent}
    \cup {TimeVar(t, u) : t \in TimeSeqs(N), u \in UnitsStrings}
    \cup {Var1D(t) : t \in TimeSeqs(N)}

VarOptions(N) ==
    {Absent}
    \cup {Var1D(Ramp(N)), Var1D(Zigzag(N + 1))}
    \cup {Var2D(N, W, Grid(N, W)) : W \in SecondAxisWidths}
    \cup {Var3D(N)}

DimOptions == {{"Time"}, {"Time", "sps25"}, {"Time", "sps5"}}

Files ==
    UNION {
      { [dims |-> d, nsec |-> N,
         vars |-> [v \in VarNames |-> CASE v = "Time" -> t [] v = "GGALT" -> g [] OTHER -> u]]
        : d \in DimOptions, t \in TimeOptions(N), g \in VarOptions(N), u \in VarOptions(N) }
      : N \in 1..MaxSeconds }

\* What stands for nc when file_path names no file: no Dataset was created.
NoFile == [dims |-> {}, nsec |-> 0, vars |-> [v \in VarNames |-> Absent]]

\* The request lists: sequences of distinct variable names.
RECURSIVE ListsOfLen(_)
ListsOfLen(n) ==
    IF n = 0 THEN {<<>>}
    ELSE {Append(l, v) : l \in ListsOfLen(n - 1), v \in VarNames}

RequestLists ==
    {l \in UNION {ListsOfLen(n) : n \in 0..MaxVars} :
        \A i, j \in 1..Len(l) : i # j => l[i] # l[j]}

----------------------------------------------------------------------------
\* The readers.

\* A variant of TimeGrid that flattens the grid column by column.
TimeGrid_colmajor(time) ==
    [j \in 1..(Len(time) * hz) |->
        Num(time[((j - 1) % Len(time)) + 1] * hz + sub_seconds[((j - 1) \div Len(time)) + 1])]

\* Lines 88-91: the seconds x hz grid of sub-second times, flattened.
TimeGrid(time) ==
    ravel([s \in 1..Len(time) |-> [i \in 1..hz |-> Num(time[s] * hz + sub_seconds[i])]])

\* A variant of Interpolate whose last second holds the last value.
Interpolate_holdlast(output_1d) ==
    ravel([i \in 1..Len(output_1d) |->
            IF i <= Len(output_1d) - 1
            THEN [k \in 1..hz |->
                    Num(output_1d[i] * hz + sub_seconds[k] * (output_1d[i + 1] - output_1d[i]))]
            ELSE [k \in 1..hz |-> Num(output_1d[i] * hz)]])

\* Lines 105-109: every second but the last is interpolated towards the next
\* one; the last second stays NaN.
Interpolate(output_1d) ==
    ravel([i \in 1..Len(output_1d) |->
            IF i <= Len(output_1d) - 1
            THEN [k \in 1..hz |->
                    Num(output_1d[i] * hz + sub_seconds[k] * (output_1d[i + 1] - output_1d[i]))]
            ELSE [k \in 1..hz |-> NaN]])

\* A variant of Flatten that reads the array column by column.
Flatten_colmajor(arr) ==
    IF arr = <<>> THEN <<>>
    ELSE [j \in 1..(Len(arr) * Len(arr[1])) |->
            Num(arr[((j - 1) % Len(arr)) + 1][((j - 1) \div Len(arr)) + 1] * hz)]

\* np.ravel(nc[var][:]) of a rank-2 variable: the stored values, unchanged.
Flatten(arr) == ravel([s \in 1..Len(arr) |-> [k \in 1..Len(arr[s]) |-> Num(arr[s][k] * hz)]])

\* The frames one iteration of read_flight_nc_25hz's loop appends to data;
\* none when the iteration's exception is swallowed before the first append.
ReadVar25hz(file, var) ==
    LET v == file.vars[var]
    IN  IF ~v.present THEN <<>>
        ELSE IF var = "Time"
        THEN IF ~v.has_units THEN <<>>
             ELSE LET output == TimeGrid(v.data)
                      dt_list == sfm_to_datetime(output, v.units)
                  IN  <<DataFrame(var, output)>>
                      \o (IF dt_list.ok THEN <<DataFrame("datetime", dt_list.dts)>>
                          ELSE <<>>)
        ELSE LET ndims == Len(v.shape)
             IN  IF ndims = 2 THEN <<DataFrame(var, Flatten(v.rows))>>
                 ELSE IF ndims = 1 THEN <<DataFrame(var, Interpolate(v.data))>>
                 ELSE <<>>

\* The frames one iteration of read_flight_nc_1hz's loop appends to data.
\* pd.DataFrame refuses a column that is not one-dimensional.
ReadVar1hz(file, var) ==
    LET v == file.vars[var]
        column == [j \in 1..Len(v.data) |-> Num(v.data[j] * hz)]
    IN  IF ~v.present THEN <<>>
        ELSE IF var = "Time"
        THEN IF ~v.has_units THEN <<>>
             ELSE IF Len(v.shape) # 1 THEN <<>>
             ELSE LET dt_list == sfm_to_datetime(column, v.units)
                  IN  <<DataFrame(var, column)>>
                      \o (IF dt_list.ok THEN <<DataFrame("datetime", dt_list.dts)>>
                          ELSE <<>>)
        ELSE IF Len(v.shape) # 1 THEN <<>>
             ELSE <<DataFrame(var, column)>>

MaxLen(frames) ==
    CHOOSE n \in {Len(frames[c].rows) : c \in 1..Len(frames)} :
        \A c \in 1..Len(frames) : Len(frames[c].rows) <= n

\* What pandas puts where a column has no row: NaT in a datetime column.
Missing(rows) == IF Len(rows) > 0 /\ rows[1][1] = "dt" THEN NaT ELSE NaN

\* pd.concat(data, axis=1): no frames is a ValueError; otherwise the columns
\* side by side over the union of their row indexes, the short ones filled.
concat(frames) ==
    IF frames = <<>>
    THEN [ok |-> FALSE, df |-> <<>>, exc |-> "ValueError"]
    ELSE [ok |-> TRUE,
          df |-> [c \in 1..Len(frames) |->
                    DataFrame(frames[c].name,
                              [j \in 1..MaxLen(frames) |->
                                  IF j <= Len(frames[c].rows) THEN frames[c].rows[j]
                                  ELSE Missing(frames[c].rows)])],
          exc |-> "none"]

\* A variant of keys that lists the variables of the file instead.
keys_of_file(table) ==
    LET present == {v \in VarNames : nc.vars[v].present}
        order == <<"Time", "GGALT", "UIC">>
    IN  SelectSeq(order, LAMBDA v : v \in present)

\* list(df.keys()): the column names in order.
keys(table) == [c \in 1..Len(table) |-> table[c].name]

\* Lines 166-170: the reader read_flight_nc calls.
read_flight_nc_dispatch(file) ==
    IF "sps25" \in file.dims THEN "read_flight_nc_25hz" ELSE "read_flight_nc_1hz"

\* A variant of flight_obj_dispatch that takes any second dimension for sps25.
flight_obj_dispatch_anydim(file) ==
    IF Cardinality(file.dims) > 1
    THEN [reader |-> "read_flight_nc_25hz", rate |-> "25Hz"]
    ELSE [reader |-> "read_flight_nc_1hz", rate |-> "1Hz"]

\* Lines 225-231: the reader flight_obj calls and the rate it records.
flight_obj_dispatch(file) ==
    IF "sps25" \in file.dims
    THEN [reader |-> "read_flight_nc_25hz", rate |-> "25Hz"]
    ELSE [reader |-> "read_flight_nc_1hz", rate |-> "1Hz"]

----------------------------------------------------------------------------
\* One call of read_flight_nc(nc, read_vars) or flight_obj(file_path, read_vars).

ScanIdle ==
    /\ fs = <<>>
    /\ field_campaigns = <<>>
    /\ spc = "idle"
    /\ cidx = 0
    /\ flight_fnames = <<>>
    /\ fidx = 0
    /\ flight_dict = <<>>
    /\ all_campaign_nc = <<>>
    /\ flight_nc = 0
    /\ ret = 0
    /\ handles = <<>>
    /\ sexc = "none"

Init ==
    /\ entry \in {"read_flight_nc", "flight_obj"}
    /\ is_file \in BOOLEAN
    /\ entry = "read_flight_nc" => is_file
    /\ nc \in Files \cup {NoFile}
    /\ (nc = NoFile) <=> ~is_file
    /\ read_vars \in RequestLists
    /\ pc = "call"
    /\ reader = "none"
    /\ idx = 1
    /\ data = <<>>
    /\ df = <<>>
    /\ exc = "none"
    /\ obj = [rate |-> "unset", read_vars |-> <<>>]
    /\ ScanIdle

\* read_flight_nc, lines 166-170: choose the reader and enter it.
read_flight_nc ==
    /\ pc = "call"
    /\ entry = "read_flight_nc"
    /\ reader' = read_flight_nc_dispatch(nc)
    /\ pc' = "loop"
    /\ UNCHANGED <<nc, is_file, read_vars, entry, idx, data, df, exc, obj>>

\* flight_obj.__init__, lines 213-227/230: a missing file is the constructor's
\* FileNotFoundError; otherwise the file is opened and the reader is entered.
flight_obj_open ==
    /\ pc = "call"
    /\ entry = "flight_obj"
    /\ IF is_file
       THEN /\ reader' = flight_obj_dispatch(nc).reader
            /\ pc' = "loop"
            /\ exc' = exc
       ELSE /\ reader' = reader
            /\ pc' = "raised"
            /\ exc' = "FileNotFoundError"
    /\ UNCHANGED <<nc, is_file, read_vars, entry, idx, data, df, obj>>

\* One iteration of the for loop of read_flight_nc_25hz, lines 81-115.
read_var_25hz ==
    /\ pc = "loop"
    /\ reader = "read_flight_nc_25hz"
    /\ idx <= Len(read_vars)
    /\ data' = data \o ReadVar25hz(nc, read_vars[idx])
    /\ idx' = idx + 1
    /\ UNCHANGED <<nc, is_file, read_vars, entry, pc, reader, df, exc, obj>>

\* One iteration of the for loop of read_flight_nc_1hz, lines 136-150.
read_var_1hz ==
    /\ pc = "loop"
    /\ reader = "read_flight_nc_1hz"
    /\ idx <= Len(read_vars)
    /\ data' = data \o ReadVar1hz(nc, read_vars[idx])
    /\ idx' = idx + 1
    /\ UNCHANGED <<nc, is_file, read_vars, entry, pc, reader, df, exc, obj>>

\* The reader's last line (119, 154): pd.concat, whose ValueError nobody
\* catches; read_flight_nc returns the table, flight_obj goes on.
reader_return ==
    /\ pc = "loop"
    /\ idx > Len(read_vars)
    /\ LET r == concat(data)
       IN  IF r.ok
           THEN /\ df' = r.df
                /\ pc' = IF entry = "flight_obj" THEN "assign" ELSE "returned"
                /\ exc' = exc
           ELSE /\ df' = df
                /\ pc' = "raised"
                /\ exc' = r.exc
    /\ UNCHANGED <<nc, is_file, read_vars, entry, reader, idx, data, obj>>

\* flight_obj.__init__, lines 227-232: self.df, self.rate, self.read_vars.
flight_obj_assign ==
    /\ pc = "assign"
    /\ obj' = [rate |-> flight_obj_dispatch(nc).rate, read_vars |-> keys(df)]
    /\ pc' = "constructed"
    /\ UNCHANGED <<nc, is_file, read_vars, entry, reader, idx, data, df, exc>>

Next ==
    \/ (read_flight_nc /\ UNCHANGED scanVars)
    \/ (flight_obj_open /\ UNCHANGED scanVars)
    \/ (read_var_25hz /\ UNCHANGED scanVars)
    \/ (read_var_1hz /\ UNCHANGED scanVars)
    \/ (reader_return /\ UNCHANGED scanVars)
    \/ (flight_obj_assign /\ UNCHANGED scanVars)

Spec == Init /\ [][Next]_vars

----------------------------------------------------------------------------
\* The campaign scanner (find_flight_fnames, open_flight_nc, read_all_flights).

\* The characters of the file names of the model, in code-point order.
Alphabet == <<".", "0", "1", "2", "3", "a", "c", "e", "f", "n", "o", "r", "s", "t", "w", "x">>

CharCode(c) == CHOOSE i \in 1..Len(Alphabet) : Alphabet[i] = c

\* Python's str order: the first differing character decides, a proper prefix is smaller.
RECURSIVE StrLess(_, _)
StrLess(a, b) ==
    IF b = <<>> THEN FALSE
    ELSE IF a = <<>> THEN TRUE
    ELSE IF a[1] = b[1] THEN StrLess(Tail(a), Tail(b))
    ELSE CharCode(a[1]) < CharCode(b[1])

\* sorted(names).
RECURSIVE sorted(_)
sorted(S) ==
    IF S = {} THEN <<>>
    ELSE LET least == CHOOSE a \in S : \A b \in S \ {a} : StrLess(a, b)
         IN  <<least>> \o sorted(S \ {least})

\* fnmatch(fname, "*.nc"): the name ends in ".nc".
fnmatch_nc(fname) ==
    /\ Len(fname) >= 3
    /\ SubSeq(fname, Len(fname) - 2, Len(fname)) = <<".", "n", "c">>

\* find_flight_fnames(dir_path) on a directory that exists: [ok, names, exc].
\* os.listdir of a directory that does not exist is a FileNotFoundError.
find_flight_fnames(dir) ==
    IF ~dir.exists
    THEN [ok |-> FALSE, names |-> <<>>, exc |-> "FileNotFoundError"]
    ELSE [ok |-> TRUE,
          names |-> sorted({e.name : e \in {x \in dir.entries : fnmatch_nc(x.name)}}),
          exc |-> "none"]

\* The whole of read_flight_nc(nc, read_vars): the frames of every iteration
\* of the chosen reader's loop, then pd.concat.
RECURSIVE ReaderFrames(_, _, _, _)
ReaderFrames(file, rv, i, rd) ==
    IF i > Len(rv) THEN <<>>
    ELSE (IF rd = "read_flight_nc_25hz" THEN ReadVar25hz(file, rv[i])
          ELSE ReadVar1hz(file, rv[i]))
         \o ReaderFrames(file, rv, i + 1, rd)

read_flight_nc_result(file, rv) ==
    concat(ReaderFrames(file, rv, 1, read_flight_nc_dispatch(file)))

\* Files of the scanned directories.
File25 == [dims |-> {"Time", "sps25"}, nsec |-> 1,
           vars |-> [v \in VarNames |->
                       CASE v = "Time" -> TimeVar(<<86399>>, UnitsStd)
                         [] v = "GGALT" -> Var1D(Ramp(1))
                         [] OTHER -> Var2D(1, hz, Grid(1, hz))]]

File1 == [dims |-> {"Time"}, nsec |-> 2,
          vars |-> [v \in VarNames |->
                      CASE v = "Time" -> TimeVar(<<10, 11>>, UnitsLeapT)
                        [] v = "GGALT" -> Var1D(Ramp(2))
                        [] OTHER -> Absent]]

NameRf01 == <<"r", "f", "0", "1", ".", "n", "c">>
NameRf02 == <<"r", "f", "0", "2", ".", "n", "c">>
NameRaw == <<"r", "a", "w", ".", "n", "c">>
NameNotes == <<"n", "o", "t", "e", "s", ".", "t", "x", "t">>

\* What a directory may hold: two flight files, a subdirectory whose name
\* ends in .nc, a text file.
DirEntries ==
    { [name |-> NameRf02, is_file |-> TRUE, file |-> File1],
      [name |-> NameRf01, is_file |-> TRUE, file |-> File25],
      [name |-> NameRaw, is_file |-> FALSE, file |-> NoFile],
      [name |-> NameNotes, is_file |-> TRUE, file |-> NoFile] }

Directories ==
    {[exists |-> FALSE, entries |-> {}]}
    \cup {[exists |-> TRUE, entries |-> E] : E \in SUBSET DirEntries}

Campaigns == {"CAMP_A", "CAMP_B"}

\* The campaign lists: non-empty sequences of distinct campaign names.
CampaignLists ==
    {<<a>> : a \in Campaigns}
    \cup {<<p[1], p[2]>> : p \in {q \in Campaigns \X Campaigns : q[1] # q[2]}}

ScanRequestLists == {<<"Time", "GGALT">>, <<"UIC">>}

ReaderIdle ==
    /\ nc = NoFile
    /\ is_file = FALSE
    /\ entry = "read_all_flights"
    /\ pc = "idle"
    /\ reader = "none"
    /\ idx = 1
    /\ data = <<>>
    /\ df = <<>>
    /\ exc = "none"
    /\ obj = [rate |-> "unset", read_vars |-> <<>>]

ScanInit ==
    /\ fs \in [Campaigns -> Directories]
    /\ field_campaigns \in CampaignLists
    /\ read_vars \in ScanRequestLists
    /\ spc = "campaigns"
    /\ cidx = 0
    /\ flight_fnames = <<>>
    /\ fidx = 0
    /\ flight_dict = <<>>
    /\ all_campaign_nc = <<>>
    /\ flight_nc = 0
    /\ ret = 0
    /\ handles = <<>>
    /\ sexc = "none"
    /\ ReaderIdle

\* The entry of the current campaign's directory with the given name.
EntryOf(campaign, fname) == CHOOSE e \in fs[campaign].entries : e.name = fname

OpenHandles == {h \in 1..Len(handles) : handles[h].open}

\* Lines 186-190: the next campaign; its directory is listed.
scan_campaign ==
    /\ spc = "campaigns"
    /\ cidx < Len(field_campaigns)
    /\ cidx' = cidx + 1
    /\ flight_dict' = <<>>
    /\ LET r == find_flight_fnames(fs[field_campaigns[cidx + 1]])
       IN  IF r.ok
           THEN /\ flight_fnames' = r.names
                /\ fidx' = 1
                /\ spc' = "files"
                /\ sexc' = sexc
           ELSE /\ flight_fnames' = <<>>
                /\ fidx' = 0
                /\ spc' = "raised"
                /\ sexc' = r.exc
    /\ UNCHANGED <<fs, field_campaigns, all_campaign_nc, flight_nc, ret, handles>>

\* Line 193, the call: open_flight_nc (lines 56-60) refuses what is not a
\* regular file and otherwise creates an open Dataset.
scan_open ==
    /\ spc = "files"
    /\ fidx <= Len(flight_fnames)
    /\ LET e == EntryOf(field_campaigns[cidx], flight_fnames[fidx])
       IN  IF e.is_file
           THEN /\ handles' = Append(handles, [name |-> e.name, file |-> e.file, open |-> TRUE])
                /\ ret' = Len(handles) + 1
                /\ spc' = "store"
                /\ sexc' = sexc
           ELSE /\ handles' = handles
                /\ ret' = ret
                /\ spc' = "raised"
                /\ sexc' = "FileNotFoundError"
    /\ UNCHANGED <<fs, field_campaigns, cidx, flight_fnames, fidx, flight_dict,
                   all_campaign_nc, flight_nc>>

\* Line 193, the assignment: flight_nc is bound to the new Dataset; the one
\* it named before loses its last reference.
scan_store ==
    /\ spc = "store"
    /\ flight_nc' = ret
    /\ ret' = 0
    /\ spc' = "read"
    /\ UNCHANGED <<fs, field_campaigns, cidx, flight_fnames, fidx, flight_dict,
                   all_campaign_nc, handles, sexc>>

\* Line 194: the file is read and its table stored under the file name.
scan_read ==
    /\ spc = "read"
    /\ LET r == read_flight_nc_result(handles[flight_nc].file, read_vars)
       IN  IF r.ok
           THEN /\ flight_dict' = Append(flight_dict,
                                         [key |-> flight_fnames[fidx], value |-> r.df])
                /\ fidx' = fidx + 1
                /\ spc' = "files"
                /\ sexc' = sexc
           ELSE /\ flight_dict' = flight_dict
                /\ fidx' = fidx
                /\ spc' = "raised"
                /\ sexc' = r.exc
    /\ UNCHANGED <<fs, field_campaigns, cidx, flight_fnames, all_campaign_nc,
                   flight_nc, ret, handles>>

\* Line 195: the campaign's mapping is stored under the campaign's name.
scan_end_campaign ==
    /\ spc = "files"
    /\ fidx > Len(flight_fnames)
    /\ all_campaign_nc' = Append(all_campaign_nc,
                                 [key |-> field_campaigns[cidx], value |-> flight_dict])
    /\ spc' = "campaigns"
    /\ UNCHANGED <<fs, field_campaigns, cidx, flight_fnames, fidx, flight_dict,
                   flight_nc, ret, handles, sexc>>

\* Line 196: the scan returns; its local variables are gone.
scan_return ==
    /\ spc = "campaigns"
    /\ cidx = Len(field_campaigns)
    /\ spc' = "returned"
    /\ flight_nc' = 0
    /\ UNCHANGED <<fs, field_campaigns, cidx, flight_fnames, fidx, flight_dict,
                   all_campaign_nc, ret, handles, sexc>>

\* No line of the file closes a Dataset: one is closed by the runtime when it
\* is reclaimed, which can happen once nothing refers to it (at once under
\* reference counting, at some later time under another collector).
dataset_dealloc ==
    /\ \E h \in OpenHandles :
          /\ h # flight_nc
          /\ h # ret
          /\ handles' = [handles EXCEPT ![h].open = FALSE]
    /\ UNCHANGED <<fs, field_campaigns, spc, cidx, flight_fnames, fidx, flight_dict,
                   all_campaign_nc, flight_nc, ret, sexc>>

ScanNext ==
    \/ (scan_campaign /\ UNCHANGED readerVars)
    \/ (scan_open /\ UNCHANGED readerVars)
    \/ (scan_store /\ UNCHANGED readerVars)
    \/ (scan_read /\ UNCHANGED readerVars)
    \/ (scan_end_campaign /\ UNCHANGED readerVars)
    \/ (scan_return /\ UNCHANGED readerVars)
    \/ (dataset_dealloc /\ UNCHANGED readerVars)

ScanSpec == ScanInit /\ [][ScanNext]_vars

----------------------------------------------------------------------------
\* Properties.

\* The reader has handed a table back.
Returned == pc \in {"returned", "assign", "constructed"}

Requested(v) == \E i \in 1..Len(read_vars) : read_vars[i] = v

Columns(table) == {table[c].name : c \in 1..Len(table)}

\* The units strings that name no date, with the reference day (date.toordinal)
\* of each of the others.
UnparsableUnits == {UnitsNoDate, UnitsShort, UnitsBadDay}

ReferenceDay(u) ==
    CASE u = UnitsStd -> 737426
      [] u = UnitsOffset -> 737424
      [] u = UnitsLeapT -> 737484

\* The rows a reader's table has for a file: one per second, or hz per second.
RowsOfFile == nc.nsec * (IF reader = "read_flight_nc_25hz" THEN hz ELSE 1)

\* C1: a call of a reader never raises because requested variables are absent
\* from the file, not even when every requested variable is absent, and the
\* table it returns has no column of an absent variable.
C1_AbsentNeverRaises ==
    /\ (/\ is_file
        /\ read_vars # <<>>
        /\ \A i \in 1..Len(read_vars) : ~nc.vars[read_vars[i]].present)
       => pc # "raised"
    /\ Returned => \A v \in VarNames : ~nc.vars[v].present => v \notin Columns(df)

\* C2: when Time is requested and its units string cannot be parsed, the call
\* does not return a table; no returned table has a Time column without its
\* datetime column.
C2_UnparsableUnitsFatal ==
    Returned =>
        /\ ~(/\ Requested("Time")
             /\ nc.vars["Time"].present
             /\ nc.vars["Time"].has_units
             /\ nc.vars["Time"].units \in UnparsableUnits)
        /\ ("Time" \in Columns(df) => "datetime" \in Columns(df))

\* C3: in every returned table each column holds as many real samples as the
\* file has seconds (times hz in a 25 Hz table), whatever the native shape of
\* the variable it was read from; none is shorter and filled up.
C3_ColumnsSameRealLength ==
    Returned => \A c \in 1..Len(data) : Len(data[c].rows) = RowsOfFile

NoFlightFiles(campaign) ==
    \/ ~fs[campaign].exists
    \/ \A e \in fs[campaign].entries : ~fnmatch_nc(e.name)

\* C5: the scan does not fail at a campaign whose lrt directory is missing or
\* holds no matching file, and such a campaign's mapping in the result is empty.
C5_NoFilesYieldsEmptyMapping ==
    /\ (cidx >= 1 /\ NoFlightFiles(field_campaigns[cidx])) => spc # "raised"
    /\ \A c \in 1..Len(all_campaign_nc) :
          NoFlightFiles(all_campaign_nc[c].key) => all_campaign_nc[c].value = <<>>

\* The first rows of a column are the interpolation of the per-second values
\* v: second i < N holds v[i] + (k/hz)(v[i+1] - v[i]), the last second is missing.
Interpolated(rows, v) ==
    /\ Len(rows) >= Len(v) * hz
    /\ \A i \in 1..(Len(v) - 1) : \A k \in 0..(hz - 1) :
          rows[(i - 1) * hz + k + 1] = <<"num", hz * v[i] + k * (v[i + 1] - v[i])>>
    /\ \A k \in 0..(hz - 1) : rows[(Len(v) - 1) * hz + k + 1] = <<"nan">>

IsRank1(name) == name \notin {"Time", "datetime"} /\ Len(nc.vars[name].shape) = 1

\* C6: in the 25 Hz reader the column made from a non-Time variable of rank 1
\* with N values has N*hz rows, row i*hz+k being v[i] + (k/hz)(v[i+1] - v[i])
\* for every second but the last and the last second's rows being missing; the
\* returned table holds these rows unchanged.
C6_Rank1Interpolated ==
    reader = "read_flight_nc_25hz" =>
        /\ \A c \in 1..Len(data) :
              IsRank1(data[c].name) =>
                  /\ Len(data[c].rows) = Len(nc.vars[data[c].name].data) * hz
                  /\ Interpolated(data[c].rows, nc.vars[data[c].name].data)
        /\ \A c \in 1..Len(df) :
              IsRank1(df[c].name) => Interpolated(df[c].rows, nc.vars[df[c].name].data)
        /\ (pc = "loop" /\ idx > Len(read_vars)) =>
              \A i \in 1..Len(read_vars) :
                  IsRank1(read_vars[i]) => \E c \in 1..Len(data) : data[c].name = read_vars[i]

\* A 25 Hz table was returned with an interpolated column of two or more
\* seconds and an interpolated column of one second.
C6_Witness ==
    /\ Returned
    /\ reader = "read_flight_nc_25hz"
    /\ \E c \in 1..Len(df) : IsRank1(df[c].name) /\ Len(nc.vars[df[c].name].data) >= 2
    /\ \E c \in 1..Len(df) : IsRank1(df[c].name) /\ Len(nc.vars[df[c].name].data) = 1

\* C7: in the 25 Hz reader the Time column made from the offsets t[0..N-1] has
\* N*hz rows, row s*hz+k being t[s] + k/hz; when the units string names a date
\* the datetime column follows it with the same number of rows, row j being
\* the date's UTC midnight plus the Time value of row j.
C7_TimeGridAndDatetime ==
    reader = "read_flight_nc_25hz" =>
        \A c \in 1..Len(data) :
            data[c].name = "Time" =>
                LET v == nc.vars["Time"]
                    rows == data[c].rows
                IN  /\ Len(rows) = Len(v.data) * hz
                    /\ \A s \in 1..Len(v.data) : \A k \in 0..(hz - 1) :
                          rows[(s - 1) * hz + k + 1] = <<"num", v.data[s] * hz + k>>
                    /\ v.units \notin UnparsableUnits =>
                          /\ c < Len(data)
                          /\ data[c + 1].name = "datetime"
                          /\ Len(data[c + 1].rows) = Len(rows)
                          /\ \A j \in 1..Len(rows) :
                                data[c + 1].rows[j] =
                                    <<"dt",
                                      ReferenceDay(v.units) + (rows[j][2] \div (86400 * hz)),
                                      rows[j][2] % (86400 * hz)>>

\* A 25 Hz table was returned with Time and datetime columns of a file of two
\* or more seconds whose offsets pass midnight.
C7_Witness ==
    /\ Returned
    /\ reader = "read_flight_nc_25hz"
    /\ {"Time", "datetime"} \subseteq Columns(df)
    /\ nc.nsec >= 2
    /\ nc.vars["Time"].data[1] = 86399

IsSps25(name) ==
    /\ name \notin {"Time", "datetime"}
    /\ Len(nc.vars[name].shape) = 2
    /\ nc.vars[name].shape[2] = hz

\* C8: in the 25 Hz reader the column made from a non-Time variable of shape
\* (N, hz) has exactly N*hz values, row s*hz+k being element [s][k] of the
\* stored array, unchanged.
C8_Rank2RowMajor ==
    reader = "read_flight_nc_25hz" =>
        /\ \A c \in 1..Len(data) :
              IsSps25(data[c].name) =>
                  LET v == nc.vars[data[c].name]
                  IN  /\ Len(data[c].rows) = v.shape[1] * hz
                      /\ \A s \in 1..v.shape[1] : \A k \in 0..(hz - 1) :
                            data[c].rows[(s - 1) * hz + k + 1] = <<"num", v.rows[s][k + 1] * hz>>
        /\ (pc = "loop" /\ idx > Len(read_vars)) =>
              \A i \in 1..Len(read_vars) :
                  IsSps25(read_vars[i]) => \E c \in 1..Len(data) : data[c].name = read_vars[i]

\* A 25 Hz table was returned with a column of a (N, hz) variable, N >= 2.
C8_Witness ==
    /\ Returned
    /\ reader = "read_flight_nc_25hz"
    /\ nc.nsec >= 2
    /\ \E c \in 1..Len(df) : IsSps25(df[c].name)

\* C9: the 25 Hz reader is called exactly when sps25 is among the file's
\* dimension names and the 1 Hz reader otherwise, by read_flight_nc and by
\* flight_obj alike; only the chosen reader's loop runs; a flight_obj's rate is
\* "25Hz" exactly when the 25 Hz reader made its table and "1Hz" exactly when
\* the 1 Hz reader did.
C9_DispatchOnSps25 ==
    /\ reader # "none" =>
          /\ ("sps25" \in nc.dims) => reader = "read_flight_nc_25hz"
          /\ ("sps25" \notin nc.dims) => reader = "read_flight_nc_1hz"
    /\ pc = "constructed" =>
          /\ obj.rate = "25Hz" <=> reader = "read_flight_nc_25hz"
          /\ obj.rate = "1Hz" <=> reader = "read_flight_nc_1hz"

\* A flight_obj was constructed from a file with another dimension than sps25
\* beside Time, and rated 1Hz.
C9_Witness ==
    /\ pc = "constructed"
    /\ nc.dims = {"Time", "sps5"}
    /\ obj.rate = "1Hz"

\* C10: during the scan at most one file handle is open at any time, and none
\* is open once the scan has returned.
C10_OneHandleAtATime ==
    /\ Cardinality(OpenHandles) <= 1
    /\ spc = "returned" => OpenHandles = {}

====
